---------------------------- MODULE Spec2Model ----------------------------
(***************************************************************************)
(* A model of toy-router: the path matcher (src/src/utils/matchRoute.ts),  *)
(* the catch-all normalizer (src/src/utils/loadRoutes.ts) and the          *)
(* navigation controller (src/src/Router.ts).                              *)
(*                                                                         *)
(* Strings are sequences of one-character strings, so that the slash       *)
(* stripping, the splitting into segments and the parameter marker are     *)
(* computed the way the code computes them.                                *)
(***************************************************************************)
EXTENDS Integers, Sequences, FiniteSets, TLC

VARIABLES
  \* ---- the matcher / normalizer harness (specification SpecMatch) ----
  mOrig,        \* the route list as declared by the caller
  mRoutes,      \* the route list after the loadRoutes calls made so far
  mLoads,       \* number of loadRoutes calls applied to mOrig
  mPath,        \* the concrete pathname handed to matchRoute
  mArgRoutes,   \* the route list handed to the last matchRoute call
  mResult       \* the last MatchResult returned, or NoResult

matchVars == <<mOrig, mRoutes, mLoads, mPath, mArgRoutes, mResult>>

VARIABLES
  \* ---- the static fields of class Router ----
  routerInstances,       \* Router.#routerInstances
  currentRouteContext,   \* Router.#currentRouteContext
  currentRoute,          \* Router.#currentRoute
  routeChangeCallbacks,  \* Router.#routeChangeCallbacks
  scrollPositions,       \* Router.#scrollPositions
  isDevMode,             \* Router.#isDevMode
  clickCallback,         \* Router.#clickCallback: the instance it closes over, 0 if unset
  popstateCallback,      \* Router.#popstateCallback: likewise
  \* ---- the application and the platform ----
  router,                \* the instance the application holds, 0 if none
  routerRoutes,          \* this.routes of the instance last constructed
  constructed,           \* number of `new Router` calls so far
  thrown,                \* what the last `new Router` call threw, "" if nothing
  windowListeners,       \* instances whose popstate listener is installed
  documentListeners,     \* instances whose click listener is installed
  hist,                  \* the session history: a list of URLs
  hidx,                  \* the index of the current entry; location is hist[hidx]
  scrollY,               \* window.scrollY
  rootChildren,          \* the children of the mount point
  title,                 \* document.title
  overlays,              \* dev-mode error overlays appended to document.body
  lastRound,             \* the callback calls of the latest notification round
  lastScroll,            \* the latest scroll call #renderRoute made
  lastCommit,            \* the attempt that last set the current route
  leftAt,                \* scroll key -> window.scrollY when a flagged route
                         \* was last left at that location
  \* ---- the #renderRoute calls ----
  attempts               \* attempt id -> the state of that #renderRoute call

staticVars ==
  <<routerInstances, currentRouteContext, currentRoute, routeChangeCallbacks,
    scrollPositions, isDevMode, clickCallback, popstateCallback>>

platformVars ==
  <<router, routerRoutes, constructed, thrown, windowListeners, documentListeners, hist,
    hidx, scrollY, rootChildren, title, overlays, lastRound, lastScroll,
    lastCommit, leftAt>>

routerVars == <<staticVars, platformVars, attempts>>

vars == <<matchVars, routerVars>>

---------------------------------------------------------------------------
\* Bounds of the model.
MaxPathLen == 4
MaxRoutes == 2
MaxLoads == 2
MaxAttempts == 3
MaxInFlight == 2
MaxConstructed == 2
MaxSubscribers == 2
MaxScroll == 1
MaxQueryLen == 5

---------------------------------------------------------------------------
\* Strings

\* String.prototype.startsWith for a one-character prefix
StartsWith(s, c) == Len(s) > 0 /\ s[1] = c

\* String.prototype.slice(1)
Slice1(s) == IF Len(s) = 0 THEN <<>> ELSE Tail(s)

\* index of the first occurrence of character c in s, 0 when absent
RECURSIVE IndexOfFrom(_, _, _)
IndexOfFrom(s, c, i) ==
  IF i > Len(s) THEN 0
  ELSE IF s[i] = c THEN i
  ELSE IndexOfFrom(s, c, i + 1)

IndexOf(s, c) == IndexOfFrom(s, c, 1)

\* String.prototype.split(c): "" splits to one empty segment
RECURSIVE Split(_, _)
Split(s, c) ==
  LET i == IndexOf(s, c) IN
  IF i = 0 THEN <<s>>
  ELSE <<SubSeq(s, 1, i - 1)>> \o Split(SubSeq(s, i + 1, Len(s)), c)

\* s.replace(/^\/|\/$/g, ""): one leading and one trailing slash removed
StripSlashes(s) ==
  LET a == IF StartsWith(s, "/") THEN Tail(s) ELSE s IN
  IF Len(a) > 0 /\ a[Len(a)] = "/" THEN SubSeq(a, 1, Len(a) - 1) ELSE a

\* the segment sequence matchRoute compares: replace(regexp, "").split("/")
Segments(s) == Split(StripSlashes(s), "/")

---------------------------------------------------------------------------
\* Routes (type Route) and match results (type MatchResult)

\* a params / query mapping with no entry
EmptyMap == [k \in {} |-> <<>>]

\* obj[k] = v on a Record<string, string>
MapSet(m, k, v) == [x \in (DOMAIN m) \cup {k} |-> IF x = k THEN v ELSE m[x]]

StarPath == <<"*">>

\* what Array.prototype.find returns when no element satisfies the test
UndefinedRoute == [undefined |-> TRUE]

\* a route declaration: beforeEnter says whether a guard is declared, title is
\* "" when none is declared
MkRoute(p, v, g, s, t) ==
  [path |-> p, view |-> v, beforeEnter |-> g, preserveScrollPosition |-> s,
   title |-> t]

\* an HTML string view "<h1>name</h1>", shortened to <name>
Markup(name) == [type |-> "string", val |-> <<"<">> \o name \o <<">">>]

\* routes.find((route) => route.path === "*")
RECURSIVE FindStarFrom(_, _)
FindStarFrom(routes, i) ==
  IF i > Len(routes) THEN UndefinedRoute
  ELSE IF routes[i].path = StarPath THEN routes[i]
  ELSE FindStarFrom(routes, i + 1)

FindStar(routes) == FindStarFrom(routes, 1)

\* the synthetic fallback route of loadRoutes
CatchAllRoute ==
  MkRoute(StarPath, Markup(<<"4", "0", "4">>), FALSE, FALSE, "")

\* loadRoutes without the test for an existing catch-all route
LoadRoutesAlwaysAppend(routes) == Append(routes, CatchAllRoute)

\* loadRoutes(routes)
loadRoutes(routes) ==
  IF FindStar(routes) # UndefinedRoute THEN routes
  ELSE Append(routes, CatchAllRoute)

\* the literal comparison routeSegment !== pathSegment
SegmentDiffers(routeSegment, pathSegment) == routeSegment # pathSegment

\* the inner loop of matchRoute over the indices of routeArr, from idx on:
\* a parameter segment binds, a differing literal rejects the candidate
RECURSIVE SegmentLoop(_, _, _, _)
SegmentLoop(routeArr, pathArr, idx, params) ==
  IF idx > Len(routeArr) THEN [routeFound |-> TRUE, params |-> params]
  ELSE IF StartsWith(routeArr[idx], ":")
    THEN SegmentLoop(routeArr, pathArr, idx + 1,
                     MapSet(params, Slice1(routeArr[idx]), pathArr[idx]))
  ELSE IF SegmentDiffers(routeArr[idx], pathArr[idx])
    THEN [routeFound |-> FALSE, params |-> params]
  ELSE SegmentLoop(routeArr, pathArr, idx + 1, params)

\* one iteration of the outer loop: is this route the match?
TryRoute(route, pathArr) ==
  LET routeArr == Segments(route.path) IN
  IF Len(routeArr) = Len(pathArr)
    THEN SegmentLoop(routeArr, pathArr, 1, EmptyMap)
    ELSE [routeFound |-> FALSE, params |-> EmptyMap]

\* the outer loop without its break: the last matching route wins
RECURSIVE RouteLoopNoBreak(_, _, _, _)
RouteLoopNoBreak(routes, pathArr, i, soFar) ==
  IF i > Len(routes) THEN soFar
  ELSE LET t == TryRoute(routes[i], pathArr) IN
       RouteLoopNoBreak(routes, pathArr, i + 1,
         IF t.routeFound THEN [route |-> routes[i], params |-> t.params]
         ELSE soFar)

\* the outer loop of matchRoute from route i on, with the result so far
RECURSIVE RouteLoop(_, _, _, _)
RouteLoop(routes, pathArr, i, soFar) ==
  IF i > Len(routes) THEN soFar
  ELSE LET t == TryRoute(routes[i], pathArr) IN
       IF t.routeFound THEN [route |-> routes[i], params |-> t.params]
       ELSE RouteLoop(routes, pathArr, i + 1, soFar)

\* matchRoute starting from no route instead of the catch-all route
MatchRouteNoFallback(pathname, routes) ==
  RouteLoop(routes, Segments(pathname), 1,
            [route |-> UndefinedRoute, params |-> EmptyMap])

\* matchRoute(pathname, routes)
matchRoute(pathname, routes) ==
  RouteLoop(routes, Segments(pathname), 1,
            [route |-> FindStar(routes), params |-> EmptyMap])

---------------------------------------------------------------------------
\* URLs and route contexts (Router.#createRouteContext)

\* a URL as the platform's URL object presents it: search is "" or starts
\* with "?", hash is "" or starts with "#"
MkURL(pn, search, hash) == [pathname |-> pn, search |-> search, hash |-> hash]

\* s.replace(c, ""): the first occurrence of c removed
RemoveFirst(s, c) ==
  LET i == IndexOf(s, c) IN
  IF i = 0 THEN s ELSE SubSeq(s, 1, i - 1) \o SubSeq(s, i + 1, Len(s))

\* decodeURIComponent on a string without percent escapes
decodeURIComponent(s) == s

\* const [rawKey, rawValue = ""] = val.split("=")
QueryPair(val) ==
  LET parts == Split(val, "=") IN
  [key |-> decodeURIComponent(parts[1]),
   value |-> decodeURIComponent(IF Len(parts) >= 2 THEN parts[2] ELSE <<>>)]

\* query.split("&").reduce(...) from pair i on
RECURSIVE QueryReduce(_, _, _)
QueryReduce(pairs, i, obj) ==
  IF i > Len(pairs) THEN obj
  ELSE QueryReduce(pairs, i + 1,
                   MapSet(obj, QueryPair(pairs[i]).key, QueryPair(pairs[i]).value))

\* queryObj of #createRouteContext
QueryObj(search) ==
  LET query == RemoveFirst(search, "?") IN
  IF Len(query) > 0 THEN QueryReduce(Split(query, "&"), 1, EmptyMap)
  ELSE EmptyMap

\* #createRouteContext(matchedRoute, path), with url = new URL(path, origin)
createRouteContext(matchedRoute, url) ==
  [url |-> url,
   pathname |-> url.pathname,
   params |-> matchedRoute.params,
   query |-> QueryObj(url.search),
   hash |-> RemoveFirst(url.hash, "#")]

\* the value of the static fields before the first commit and after a reset
UndefinedValue == [undefined |-> TRUE]

---------------------------------------------------------------------------
\* Views (Router.#validateView, Router.#renderRouteView)

NoView == [type |-> "undefined"]

\* a string view that is neither markup nor a component name
StringView(chars) == [type |-> "string", val |-> chars]

\* () => Promise resolving to a module object { default: view }
LazyDefault(view) ==
  [type |-> "function",
   returns |-> [promise |-> TRUE, settle |-> "resolve",
                value |-> [type |-> "module", default |-> view]]]

\* () => Promise resolving to the view itself
LazyPlain(view) ==
  [type |-> "function",
   returns |-> [promise |-> TRUE, settle |-> "resolve", value |-> view]]

\* () => Promise rejecting with an Error
LazyReject ==
  [type |-> "function",
   returns |-> [promise |-> TRUE, settle |-> "rejectError", value |-> NoView]]

LowerLetters ==
  {"a", "b", "c", "d", "e", "f", "g", "h", "i", "j", "k", "l", "m", "n", "o",
   "p", "q", "r", "s", "t", "u", "v", "w", "x", "y", "z"}

DigitChars == {"0", "1", "2", "3", "4", "5", "6", "7", "8", "9"}

\* String.prototype.trim, for blanks
RECURSIVE TrimLeft(_)
TrimLeft(s) == IF Len(s) > 0 /\ s[1] = " " THEN TrimLeft(Tail(s)) ELSE s

RECURSIVE TrimRight(_)
TrimRight(s) ==
  IF Len(s) > 0 /\ s[Len(s)] = " " THEN TrimRight(SubSeq(s, 1, Len(s) - 1))
  ELSE s

Trim(s) == TrimRight(TrimLeft(s))

\* trimmed.startsWith("<") && trimmed.endsWith(">")
IsMarkup(t) == Len(t) > 0 /\ t[1] = "<" /\ t[Len(t)] = ">"

\* /^[a-z][a-z0-9]*(-[a-z0-9]+)+$/.test(trimmed)
IsComponentName(t) ==
  LET parts == Split(t, "-") IN
  /\ Len(parts) >= 2
  /\ Len(parts[1]) > 0
  /\ parts[1][1] \in LowerLetters
  /\ \A i \in 1..Len(parts) :
       /\ Len(parts[i]) > 0
       /\ \A k \in 1..Len(parts[i]) : parts[i][k] \in LowerLetters \cup DigitChars

\* the outcome of #validateView: viewType and view when ok, else the error;
\* awaited tells whether a lazy view's promise was awaited on the way, and
\* calls counts the #renderError calls made inside #validateView
Validated(viewType, view, awaited) ==
  [ok |-> TRUE, viewType |-> viewType, view |-> view, error |-> "",
   awaited |-> awaited, calls |-> 0]

ValidationFailed(error, awaited, calls) ==
  [ok |-> FALSE, viewType |-> "", view |-> NoView, error |-> error,
   awaited |-> awaited, calls |-> calls]

Unrecognized == "Unrecognized view format."

\* #validateView(view)
RECURSIVE validateViewFrom(_, _)
validateViewFrom(view, awaited) ==
  IF view.type = "string" /\ IsMarkup(Trim(view.val))
    THEN Validated("string", StringView(Trim(view.val)), awaited)
  ELSE IF view.type = "string" /\ IsComponentName(Trim(view.val))
    THEN Validated("web-component", StringView(Trim(view.val)), awaited)
  ELSE IF view.type = "element"
    THEN Validated("html-element", view, awaited)
  ELSE IF view.type = "function" /\ view.returns.promise
    THEN IF view.returns.settle = "rejectError"
           THEN ValidationFailed("There was a problem with lazy loading view.",
                                 TRUE, 1)
         ELSE IF view.returns.settle = "rejectOther"
                   \/ view.returns.value.type = "undefined"
           \* resolvedViewPromise is undefined: reading .default throws
           THEN ValidationFailed("TypeError", TRUE, 0)
         ELSE IF view.returns.value.type = "module"
           THEN validateViewFrom(view.returns.value.default, TRUE)
         ELSE validateViewFrom(view.returns.value, TRUE)
  ELSE ValidationFailed(Unrecognized, awaited, 1)

validateView(view) == validateViewFrom(view, FALSE)

\* !view
ViewMissing(view) ==
  view.type = "undefined" \/ (view.type = "string" /\ view.val = <<>>)

\* what #renderRouteView(route) comes to: the children and title it sets when
\* the view validates, else its error; syncCalls are the #renderError calls
\* made before the first suspension, asyncCalls those made after it (the
\* catch blocks of #renderRouteView and #renderRoute rethrow through it)
renderRouteView(route) ==
  IF ViewMissing(route.view)
    THEN [ok |-> FALSE, viewType |-> "", view |-> NoView,
          error |-> "View is missing.", syncCalls |-> 1, asyncCalls |-> 1]
  ELSE LET v == validateView(route.view) IN
       [ok |-> v.ok, viewType |-> v.viewType, view |-> v.view,
        error |-> v.error,
        syncCalls |-> IF v.awaited THEN 0 ELSE v.calls,
        asyncCalls |-> IF v.ok THEN 0
                       ELSE (IF v.awaited THEN v.calls ELSE 0)
                            + 2]

\* the children of the mount point before the first render
NoChildren == [viewType |-> "none", view |-> NoView]

---------------------------------------------------------------------------
\* The application: its route declarations, the URLs it navigates to, the
\* guards' results and the route-change callbacks it subscribes.

HomeRoute == MkRoute(<<"/">>, Markup(<<"H">>), FALSE, TRUE, "")
SecretRoute == MkRoute(<<"/", "s">>, Markup(<<"S">>), TRUE, FALSE, "Secret")
LazyRoute ==
  MkRoute(<<"/", "l">>, LazyDefault(Markup(<<"L">>)), FALSE, FALSE, "")
BadRoute == MkRoute(<<"/", "x">>, StringView(<<"x">>), FALSE, FALSE, "")

AppRoutes == <<HomeRoute, SecretRoute, LazyRoute, BadRoute>>

RootURL == MkURL(<<"/">>, <<>>, <<>>)

\* the paths handed to navigate / redirect; SecretURL is a relative path
SecretURL == MkURL(<<"s">>, <<"?", "a", "=", "b">>, <<"#", "h">>)
LazyURL == MkURL(<<"/", "l">>, <<>>, <<>>)
BadURL == MkURL(<<"/", "x">>, <<>>, <<>>)

Targets == {RootURL, SecretURL, LazyURL, BadURL}

\* the devMode argument of the constructor, as the test setup passes it
DevModes == {"false"}

\* what a beforeEnter call does before #renderRoute suspends: it throws an
\* Error, throws something else, returns a value or a promise whose outcome
\* later events decide ("pending"), or is `async () => true` ("resolvesTrue")
GuardCalls == {"pending", "resolvesTrue", "throwError", "throwOther"}

\* route.beforeEnter is not declared: beforeEnter?.() is undefined
NoGuard == "none"

GuardChoices(route) == IF route.beforeEnter THEN GuardCalls ELSE {NoGuard}

\* what `await` yields for a guard that returned: the value returned (or the
\* value its promise resolved to), or the rejection of its promise with an
\* Error or with something else
GuardResults ==
  {"true", "false", "undefined", "null", "rejectError", "rejectOther"}

GuardSettles(guard) ==
  IF guard = NoGuard THEN {NoGuard}
  ELSE IF guard = "resolvesTrue" THEN {"true"}
  ELSE GuardResults

\* the callbacks: "f" returns, "t" throws, "u" calls the unsubscribe closure
\* of "f" and returns
Callbacks == {"f", "t", "u"}
CallbackThrows(cb) == cb = "t"
CallbackUnsubscribes(cb) == IF cb = "u" THEN {"f"} ELSE {}

\* the ids of the elements of the document, all at the bottom of the page
ElementIds == {<<"h">>}
ElementTop == MaxScroll

---------------------------------------------------------------------------
\* The controller

\* normalizeUrl(path): a path that is not path-absolute gets a leading slash
normalizeUrl(path) ==
  IF StartsWith(path.pathname, "/") THEN path
  ELSE [path EXCEPT !.pathname = <<"/">> \o @]

Location == hist[hidx]

\* history.pushState({}, "", url): the entries after the current one are dropped
PushState(h, i, url) == [hist |-> Append(SubSeq(h, 1, i), url), hidx |-> i + 1]

\* history.replaceState({}, "", url)
ReplaceState(h, i, url) == [hist |-> [h EXCEPT ![i] = url], hidx |-> i]

\* a controller that pushes whatever the entry point
HistoryActionAlwaysPush(entry, h, i, url) == PushState(h, i, url)

\* historyAction?.() of an attempt
HistoryAction(entry, h, i, url) ==
  IF entry = "navigate" THEN PushState(h, i, url)
  ELSE IF entry = "redirect" THEN ReplaceState(h, i, url)
  ELSE [hist |-> h, hidx |-> i]

\* a controller that ignores the guard's result
CanEnterRouteAlways(result) == TRUE

\* canEnterRoute = (await beforeEnter?.(ctx)) ?? true
CanEnterRoute(result) ==
  IF result \in {NoGuard, "undefined", "null"} THEN TRUE ELSE result = "true"

\* no scroll call yet
NoScroll == [by |-> 0, kind |-> "none", id |-> <<>>, y |-> 0]

\* no notification round yet
NoRound == [by |-> 0, calls |-> <<>>]

\* Router.#scrollPositions.get(key): has is FALSE when it returns undefined
Remembered(positions, key) ==
  IF key \in DOMAIN positions THEN [has |-> TRUE, y |-> positions[key]]
  ELSE [has |-> FALSE, y |-> 0]

\* the locals of a #renderRoute call; outcome and error tell how it ended,
\* memo is what the scroll memory held for the call's location when the
\* call was made
IdleAttempt ==
  [pc |-> "idle", entry |-> "", path |-> UndefinedValue,
   matchedRoute |-> UndefinedValue, newRouteContext |-> UndefinedValue,
   guard |-> NoGuard, key |-> <<>>, memo |-> Remembered(EmptyMap, <<>>),
   outcome |-> "", error |-> ""]

\* a #renderRoute call that returned or threw: its locals are gone
Ended(entry, outcome, error) ==
  [IdleAttempt EXCEPT !.pc = "done", !.entry = entry, !.outcome = outcome,
                      !.error = error]

AttemptIds == 1..MaxAttempts

\* the next #renderRoute call gets the lowest unused id
FreeAttempt == Cardinality({a \in AttemptIds : attempts[a].pc # "idle"}) + 1

InFlight == {a \in AttemptIds : attempts[a].pc \in {"guard", "view", "notify"}}

\* a further #renderRoute call fits the bounds
CanBegin == FreeAttempt <= MaxAttempts /\ Cardinality(InFlight) < MaxInFlight

\* #renderError called n times: an overlay each in dev mode, else a log line
RenderError(dev, n) == IF dev = "true" THEN overlays + n ELSE overlays

\* #renderRoute(path, historyAction) up to its first suspension: the match,
\* the context, the guard call. A guard that throws synchronously is caught
\* before any await.
BeginRenderRoute(entry, path, g, thisRoutes, location) ==
  LET hasPath == entry \in {"navigate", "redirect"}
      pathname == IF hasPath THEN path.pathname ELSE location.pathname
      matchedRoute == matchRoute(pathname, thisRoutes)
      url == IF hasPath THEN path ELSE MkURL(pathname, <<>>, <<>>)
  IN  IF g = "throwError"
        THEN Ended(entry, "guardError", "beforeEnter error")
      ELSE IF g = "throwOther" THEN Ended(entry, "guardIgnored", "")
      ELSE [IdleAttempt EXCEPT
              !.pc = "guard",
              !.entry = entry,
              !.path = IF hasPath THEN path ELSE UndefinedValue,
              !.matchedRoute = matchedRoute,
              !.newRouteContext = createRouteContext(matchedRoute, url),
              !.memo = Remembered(scrollPositions,
                                  url.pathname \o url.search \o url.hash),
              !.guard = g]

\* the route a #renderRoute call would match for this pathname
RouteFor(pathname, thisRoutes) == matchRoute(pathname, thisRoutes).route

\* no MatchResult returned yet
NoResult == [none |-> TRUE]

InitMatchVars ==
  /\ mOrig = <<>>
  /\ mRoutes = <<>>
  /\ mLoads = 0
  /\ mPath = <<"/">>
  /\ mArgRoutes = <<>>
  /\ mResult = NoResult

\* the state of the classes and the page before any `new Router`: the
\* document is loaded at "/", and the session history still holds the entry
\* the user had come back from
InitRouterVarsAt(h, i) ==
  /\ routerInstances = 0
  /\ currentRouteContext = UndefinedValue
  /\ currentRoute = UndefinedValue
  /\ routeChangeCallbacks = <<>>
  /\ scrollPositions = EmptyMap
  /\ isDevMode = "undefined"
  /\ clickCallback = 0
  /\ popstateCallback = 0
  /\ router = 0
  /\ routerRoutes = <<>>
  /\ constructed = 0
  /\ thrown = ""
  /\ windowListeners = {}
  /\ documentListeners = {}
  /\ hist = h
  /\ hidx = i
  /\ scrollY = 0
  /\ rootChildren = NoChildren
  /\ title = ""
  /\ overlays = 0
  /\ lastRound = NoRound
  /\ lastScroll = NoScroll
  /\ lastCommit = 0
  /\ leftAt = EmptyMap
  /\ attempts = [a \in AttemptIds |-> IdleAttempt]

InitRouterVars == InitRouterVarsAt(<<RootURL, LazyURL>>, 1)

Init == InitMatchVars /\ InitRouterVars

\* new Router(routes, root, devMode): #setDevFlag, #singletonGuard,
\* loadRoutes, #setRootElement, #bindEvents, and the first #renderRoute()
\* up to its first suspension. rootFound tells whether the selector resolves.
Construct(devMode, rootFound, g) ==
  LET id == constructed + 1
      thisRoutes == loadRoutes(AppRoutes)
      first == BeginRenderRoute("initial", UndefinedValue, g, thisRoutes, Location)
  IN
  /\ constructed < MaxConstructed
  /\ constructed' = id
  /\ isDevMode' = devMode
  /\ IF routerInstances > 0
       THEN /\ thrown' = "Router already initialized."
            /\ overlays' = RenderError(devMode, 1)
            /\ g = NoGuard
            /\ UNCHANGED <<routerInstances, routerRoutes, router, clickCallback,
                           popstateCallback, windowListeners,
                           documentListeners, attempts>>
     ELSE IF ~rootFound
       THEN /\ routerInstances' = routerInstances + 1
            /\ routerRoutes' = thisRoutes
            /\ thrown' = "Element not found."
            /\ overlays' = RenderError(devMode, 1)
            /\ g = NoGuard
            /\ UNCHANGED <<router, clickCallback, popstateCallback,
                           windowListeners, documentListeners, attempts>>
     ELSE /\ CanBegin
          /\ g \in GuardChoices(RouteFor(Location.pathname, thisRoutes))
          /\ routerInstances' = routerInstances + 1
          /\ routerRoutes' = thisRoutes
          /\ thrown' = ""
          /\ router' = id
          /\ popstateCallback' = id
          /\ clickCallback' = id
          /\ windowListeners' = windowListeners \cup {id}
          /\ documentListeners' = documentListeners \cup {id}
          /\ attempts' = [attempts EXCEPT ![FreeAttempt] = first]
          /\ overlays' = RenderError(devMode,
                                     IF first.outcome = "guardError" THEN 1 ELSE 0)
  /\ UNCHANGED <<currentRouteContext, currentRoute, routeChangeCallbacks,
                 scrollPositions, hist, hidx, scrollY, rootChildren, title,
                 lastRound, lastScroll, lastCommit, leftAt>>

\* what a call of a getter comes to: a returned value or a raised error
Returned(value) == [raised |-> FALSE, value |-> value, error |-> ""]

Raised(error) == [raised |-> TRUE, value |-> UndefinedValue, error |-> error]

\* router.url(): reads .url of Router.#currentRouteContext; reading a
\* property of undefined raises a TypeError
RouterUrl ==
  IF currentRouteContext = UndefinedValue THEN Raised("TypeError")
  ELSE Returned(currentRouteContext.url)

\* router.params(): destructures Router.#currentRouteContext; destructuring
\* undefined raises a TypeError
RouterParams ==
  IF currentRouteContext = UndefinedValue THEN Raised("TypeError")
  ELSE Returned([params |-> currentRouteContext.params,
                 query |-> currentRouteContext.query,
                 hash |-> currentRouteContext.hash])

\* router.currentRoute(): returns Router.#currentRoute as it is
RouterCurrentRoute == Returned(currentRoute)

\* router.navigate(path) / router.redirect(path): normalizeUrl, then
\* #renderRoute up to its first suspension
Enter(entry, path, g) ==
  LET normalizedPath == normalizeUrl(path)
      begun == BeginRenderRoute(entry, normalizedPath, g, routerRoutes, Location)
  IN
  /\ router # 0
  /\ CanBegin
  /\ g \in GuardChoices(RouteFor(normalizedPath.pathname, routerRoutes))
  /\ attempts' = [attempts EXCEPT ![FreeAttempt] = begun]
  /\ overlays' = RenderError(isDevMode,
                             IF begun.outcome = "guardError" THEN 1 ELSE 0)
  /\ UNCHANGED <<staticVars, router, routerRoutes, constructed, thrown,
                 windowListeners, documentListeners, hist, hidx, scrollY,
                 rootChildren, title, lastRound, lastScroll, lastCommit, leftAt>>

Navigate(path, g) == Enter("navigate", path, g)

Redirect(path, g) == Enter("redirect", path, g)

\* history.back() / history.forward(): the location moves by delta and the
\* popstate event runs the installed listener, () => this.#renderRoute()
Traverse(delta, g) ==
  LET i == hidx + delta
      begun == BeginRenderRoute("popstate", UndefinedValue, g, routerRoutes, hist[i])
  IN
  /\ i \in 1..Len(hist)
  /\ hidx' = i
  /\ IF windowListeners = {}
       THEN /\ g = NoGuard
            /\ UNCHANGED <<attempts, overlays>>
       ELSE /\ CanBegin
            /\ g \in GuardChoices(RouteFor(hist[i].pathname, routerRoutes))
            /\ attempts' = [attempts EXCEPT ![FreeAttempt] = begun]
            /\ overlays' = RenderError(isDevMode,
                                       IF begun.outcome = "guardError" THEN 1 ELSE 0)
  /\ UNCHANGED <<staticVars, router, routerRoutes, constructed, thrown,
                 windowListeners, documentListeners, hist, scrollY,
                 rootChildren, title, lastRound, lastScroll, lastCommit, leftAt>>

Back(g) == Traverse(-1, g)

Forward(g) == Traverse(1, g)

\* an unsubscribe that removes one registration only, as a splice at
\* indexOf(cb) would
RECURSIVE WithoutFirst(_, _)
WithoutFirst(list, cb) ==
  IF list = <<>> THEN <<>>
  ELSE IF Head(list) = cb THEN Tail(list)
  ELSE <<Head(list)>> \o WithoutFirst(Tail(list), cb)

\* array.filter((callback) => callback !== cb)
RECURSIVE Without(_, _)
Without(list, cb) ==
  IF list = <<>> THEN <<>>
  ELSE IF Head(list) = cb THEN Without(Tail(list), cb)
  ELSE <<Head(list)>> \o Without(Tail(list), cb)

\* the scroll memory key of a context: pathname + search + hash of its url
ScrollKey(ctx) == ctx.url.pathname \o ctx.url.search \o ctx.url.hash

\* the offsets at which flagged routes were left for another route, once
\* attempt a leaves the current route now
Leaving(a) ==
  IF /\ currentRoute # UndefinedValue
     /\ currentRoute.route.preserveScrollPosition
     /\ attempts[a].matchedRoute.route # currentRoute.route
    THEN MapSet(leftAt, ScrollKey(currentRouteContext), scrollY)
    ELSE leftAt

\* a commit that never calls historyAction
CommitSkipsHistory(a) ==
  LET att == attempts[a]
      route == att.matchedRoute.route
      key == ScrollKey(att.newRouteContext)
  IN
  /\ currentRoute' = att.matchedRoute
  /\ currentRouteContext' = att.newRouteContext
  /\ scrollPositions' =
       IF route.preserveScrollPosition
         THEN MapSet(scrollPositions, key, scrollY)
         ELSE scrollPositions
  /\ UNCHANGED <<hist, hidx>>
  /\ overlays' = RenderError(isDevMode, renderRouteView(route).syncCalls)
  /\ lastCommit' = a
  /\ leftAt' = Leaving(a)
  /\ attempts' = [attempts EXCEPT ![a].pc = "view", ![a].key = key]

\* a commit that keeps the current match result and context of an attempt
\* started later that has committed already
CommitUnlessSuperseded(a) ==
  LET att == attempts[a]
      route == att.matchedRoute.route
      key == ScrollKey(att.newRouteContext)
      h == HistoryAction(att.entry, hist, hidx, att.path)
  IN
  /\ currentRoute' = IF lastCommit > a THEN currentRoute ELSE att.matchedRoute
  /\ currentRouteContext' =
       IF lastCommit > a THEN currentRouteContext ELSE att.newRouteContext
  /\ scrollPositions' =
       IF route.preserveScrollPosition
         THEN MapSet(scrollPositions, key, scrollY)
         ELSE scrollPositions
  /\ hist' = h.hist
  /\ hidx' = h.hidx
  /\ overlays' = RenderError(isDevMode, renderRouteView(route).syncCalls)
  /\ lastCommit' = a
  /\ leftAt' = Leaving(a)
  /\ attempts' = [attempts EXCEPT ![a].pc = "view", ![a].key = key]

\* the part of #renderRoute from the guard's result to the suspension at
\* `await this.#renderRouteView(...)`: current route and context, scroll
\* memory, history action, and the synchronous part of #renderRouteView
Commit(a) ==
  LET att == attempts[a]
      route == att.matchedRoute.route
      key == ScrollKey(att.newRouteContext)
      h == HistoryAction(att.entry, hist, hidx, att.path)
  IN
  /\ currentRoute' = att.matchedRoute
  /\ currentRouteContext' = att.newRouteContext
  /\ scrollPositions' =
       IF route.preserveScrollPosition
         THEN MapSet(scrollPositions, key, scrollY)
         ELSE scrollPositions
  /\ hist' = h.hist
  /\ hidx' = h.hidx
  /\ overlays' = RenderError(isDevMode, renderRouteView(route).syncCalls)
  /\ lastCommit' = a
  /\ leftAt' = Leaving(a)
  /\ attempts' = [attempts EXCEPT ![a].pc = "view", ![a].key = key]

\* an attempt ends at the guard: outcome, error message, #renderError calls
Abort(a, outcome, error, calls) ==
  /\ attempts' = [attempts EXCEPT ![a] = Ended(attempts[a].entry, outcome, error)]
  /\ overlays' = RenderError(isDevMode, calls)
  /\ UNCHANGED <<currentRoute, currentRouteContext, scrollPositions, hist,
                 hidx, lastCommit, leftAt>>

\* #renderRoute resumes from `await beforeEnter?.(ctx)` with its result
GuardResume(a, result) ==
  /\ attempts[a].pc = "guard"
  /\ result \in GuardSettles(attempts[a].guard)
  /\ IF result = "rejectError"
       THEN Abort(a, "guardError", "beforeEnter error", 1)
     ELSE IF result = "rejectOther"
       THEN Abort(a, "guardIgnored", "", 0)
     ELSE IF ~CanEnterRoute(result)
       THEN Abort(a, "blocked", "", 0)
     ELSE Commit(a)
  /\ UNCHANGED <<routerInstances, routeChangeCallbacks, isDevMode,
                 clickCallback, popstateCallback, router, routerRoutes,
                 constructed, thrown, windowListeners, documentListeners,
                 scrollY, rootChildren, title, lastRound, lastScroll>>

\* a view step that takes the pushed entry back when the view fails
ViewResumeRollsBack(a) ==
  LET route == attempts[a].matchedRoute.route
      r == renderRouteView(route)
  IN
  /\ attempts[a].pc = "view"
  /\ IF r.ok
       THEN /\ rootChildren' = [viewType |-> r.viewType, view |-> r.view]
            /\ title' = IF route.title # "" THEN route.title ELSE title
            /\ attempts' = [attempts EXCEPT ![a].pc = "notify"]
            /\ UNCHANGED <<overlays, hist, hidx>>
       ELSE /\ attempts' =
                 [attempts EXCEPT
                    ![a] = Ended(attempts[a].entry, "viewError", r.error)]
            /\ overlays' = RenderError(isDevMode, r.asyncCalls)
            /\ IF attempts[a].entry = "navigate" /\ hidx > 1
                 THEN /\ hist' = SubSeq(hist, 1, hidx - 1)
                      /\ hidx' = hidx - 1
                 ELSE UNCHANGED <<hist, hidx>>
            /\ UNCHANGED <<rootChildren, title>>
  /\ UNCHANGED <<staticVars, router, routerRoutes, constructed, thrown,
                 windowListeners, documentListeners, scrollY,
                 lastRound, lastScroll, lastCommit, leftAt>>

\* a view step that empties the mount point before it validates the view
ViewResumeClearsMount(a) ==
  LET route == attempts[a].matchedRoute.route
      r == renderRouteView(route)
  IN
  /\ attempts[a].pc = "view"
  /\ IF r.ok
       THEN /\ rootChildren' = [viewType |-> r.viewType, view |-> r.view]
            /\ title' = IF route.title # "" THEN route.title ELSE title
            /\ attempts' = [attempts EXCEPT ![a].pc = "notify"]
            /\ UNCHANGED overlays
       ELSE /\ attempts' =
                 [attempts EXCEPT
                    ![a] = Ended(attempts[a].entry, "viewError", r.error)]
            /\ overlays' = RenderError(isDevMode, r.asyncCalls)
            /\ rootChildren' = NoChildren
            /\ UNCHANGED title
  /\ UNCHANGED <<staticVars, router, routerRoutes, constructed, thrown,
                 windowListeners, documentListeners, hist, hidx, scrollY,
                 lastRound, lastScroll, lastCommit, leftAt>>

\* #renderRouteView resumes from `await this.#validateView(view)`: it sets
\* the children of the mount point and the title, or rethrows
ViewResume(a) ==
  LET route == attempts[a].matchedRoute.route
      r == renderRouteView(route)
  IN
  /\ attempts[a].pc = "view"
  /\ IF r.ok
       THEN /\ rootChildren' = [viewType |-> r.viewType, view |-> r.view]
            /\ title' = IF route.title # "" THEN route.title ELSE title
            /\ attempts' = [attempts EXCEPT ![a].pc = "notify"]
            /\ UNCHANGED overlays
       ELSE /\ attempts' =
                 [attempts EXCEPT
                    ![a] = Ended(attempts[a].entry, "viewError", r.error)]
            /\ overlays' = RenderError(isDevMode, r.asyncCalls)
            /\ UNCHANGED <<rootChildren, title>>
  /\ UNCHANGED <<staticVars, router, routerRoutes, constructed, thrown,
                 windowListeners, documentListeners, hist, hidx, scrollY,
                 lastRound, lastScroll, lastCommit, leftAt>>

\* the subscriber list after the callbacks of snapshot, from the i-th on,
\* have run: a callback may call unsubscribe closures
RECURSIVE AfterCallbacks(_, _, _)
AfterCallbacks(snapshot, i, list) ==
  IF i > Len(snapshot) THEN list
  ELSE AfterCallbacks(snapshot, i + 1,
         IF CallbackUnsubscribes(snapshot[i]) = {} THEN list
         ELSE Without(list, CHOOSE cb \in CallbackUnsubscribes(snapshot[i]) : TRUE))

\* the first place of snapshot, from i on, whose callback throws; 0 if none
RECURSIVE FirstThrower(_, _)
FirstThrower(snapshot, i) ==
  IF i > Len(snapshot) THEN 0
  ELSE IF CallbackThrows(snapshot[i]) THEN i
  ELSE FirstThrower(snapshot, i + 1)

\* a round without the try / catch: the first throw ends the forEach
CallRouteChangeCallbacksStopsAtThrow(snapshot, ctx) ==
  LET n == IF FirstThrower(snapshot, 1) = 0 THEN Len(snapshot)
           ELSE FirstThrower(snapshot, 1)
  IN  [i \in 1..n |->
         [callback |-> snapshot[i], ctx |-> ctx,
          caught |-> CallbackThrows(snapshot[i])]]

\* #callRouteChangeCallbacks: forEach over the array as it is when the round
\* starts, each callback called with Router.#currentRouteContext, a throw caught
CallRouteChangeCallbacks(snapshot, ctx) ==
  [i \in 1..Len(snapshot) |->
     [callback |-> snapshot[i], ctx |-> ctx,
      caught |-> CallbackThrows(snapshot[i])]]

\* the scroll step of #renderRoute call a: scrollToElement(hash),
\* window.scrollTo(0, lastScrollPosition) or window.scrollTo(0, 0)
ScrollStep(a, key, ctx, positions) ==
  IF ctx.hash # <<>>
    THEN [by |-> a, kind |-> "element", id |-> ctx.hash, y |-> 0]
  ELSE IF key \in DOMAIN positions
    THEN [by |-> a, kind |-> "scrollTo", id |-> <<>>, y |-> positions[key]]
  ELSE [by |-> a, kind |-> "scrollTo", id |-> <<>>, y |-> 0]

\* #renderRoute resumes from `await this.#renderRouteView(...)`: the
\* callbacks, then the scroll. After a reset Router.#currentRouteContext is
\* undefined and reading its hash throws a TypeError.
NotifyResume(a) ==
  LET att == attempts[a]
      snapshot == routeChangeCallbacks
      calls == CallRouteChangeCallbacks(snapshot, currentRouteContext)
      sc == ScrollStep(a, att.key, currentRouteContext, scrollPositions)
  IN
  /\ att.pc = "notify"
  /\ routeChangeCallbacks' = AfterCallbacks(snapshot, 1, routeChangeCallbacks)
  /\ lastRound' = [by |-> a, calls |-> calls]
  /\ IF currentRouteContext = UndefinedValue
       THEN /\ attempts' =
                 [attempts EXCEPT ![a] = Ended(att.entry, "typeError", "TypeError")]
            /\ UNCHANGED <<scrollY, lastScroll>>
       ELSE /\ attempts' =
                 [attempts EXCEPT ![a] = Ended(att.entry, "rendered", "")]
            /\ lastScroll' = sc
            /\ scrollY' =
                 IF sc.kind = "scrollTo" THEN sc.y
                 ELSE IF sc.id \in ElementIds THEN ElementTop
                 ELSE scrollY
  /\ UNCHANGED <<routerInstances, currentRouteContext, currentRoute,
                 scrollPositions, isDevMode, clickCallback, popstateCallback,
                 router, routerRoutes, constructed, thrown, windowListeners,
                 documentListeners, hist, hidx, rootChildren, title, overlays,
                 lastCommit, leftAt>>

\* router.onRouteChange(cb), cb a function
OnRouteChange(cb) ==
  /\ router # 0
  /\ Len(routeChangeCallbacks) < MaxSubscribers
  /\ routeChangeCallbacks' = Append(routeChangeCallbacks, cb)
  /\ UNCHANGED <<routerInstances, currentRouteContext, currentRoute,
                 scrollPositions, isDevMode, clickCallback, popstateCallback,
                 platformVars, attempts>>

\* the closure onRouteChange(cb) returned is called
Unsubscribe(cb) ==
  /\ routeChangeCallbacks' = Without(routeChangeCallbacks, cb)
  /\ UNCHANGED <<routerInstances, currentRouteContext, currentRoute,
                 scrollPositions, isDevMode, clickCallback, popstateCallback,
                 platformVars, attempts>>

\* the user scrolls the window
UserScroll(y) ==
  /\ y # scrollY
  /\ scrollY' = y
  /\ UNCHANGED <<staticVars, router, routerRoutes, constructed, thrown,
                 windowListeners, documentListeners, hist, hidx, rootChildren,
                 title, overlays, lastRound, lastScroll, lastCommit, leftAt, attempts>>

\* a reset that zeroes the fields but leaves the listeners attached
ResetForTestsKeepsListeners ==
  /\ popstateCallback' = 0
  /\ clickCallback' = 0
  /\ routerInstances' = 0
  /\ currentRouteContext' = UndefinedValue
  /\ currentRoute' = UndefinedValue
  /\ routeChangeCallbacks' = <<>>
  /\ scrollPositions' = EmptyMap
  /\ isDevMode' = "undefined"
  /\ router' = 0
  /\ UNCHANGED <<windowListeners, documentListeners, routerRoutes,
                 constructed, thrown, hist, hidx, scrollY, rootChildren,
                 title, overlays, lastRound, lastScroll, lastCommit, leftAt, attempts>>

\* Router.__resetForTests(); the application drops its router
ResetForTests ==
  /\ windowListeners' =
       IF popstateCallback # 0 THEN windowListeners \ {popstateCallback}
       ELSE windowListeners
  /\ popstateCallback' = 0
  /\ documentListeners' =
       IF clickCallback # 0 THEN documentListeners \ {clickCallback}
       ELSE documentListeners
  /\ clickCallback' = 0
  /\ routerInstances' = 0
  /\ currentRouteContext' = UndefinedValue
  /\ currentRoute' = UndefinedValue
  /\ routeChangeCallbacks' = <<>>
  /\ scrollPositions' = EmptyMap
  /\ isDevMode' = "undefined"
  /\ router' = 0
  /\ UNCHANGED <<routerRoutes, constructed, thrown, hist, hidx, scrollY,
                 rootChildren, title, overlays, lastRound, lastScroll,
                 lastCommit, leftAt, attempts>>

\* The navigation state machine: one controller, the four entry points and
\* the resumptions of the suspended #renderRoute calls.
Next ==
  \/ \E devMode \in DevModes, g \in GuardCalls \cup {NoGuard} :
       Construct(devMode, TRUE, g) /\ UNCHANGED matchVars
  \/ \E path \in Targets, g \in GuardCalls \cup {NoGuard} :
       Navigate(path, g) /\ UNCHANGED matchVars
  \/ \E path \in Targets, g \in GuardCalls \cup {NoGuard} :
       Redirect(path, g) /\ UNCHANGED matchVars
  \/ \E g \in GuardCalls \cup {NoGuard} : Back(g) /\ UNCHANGED matchVars
  \/ \E g \in GuardCalls \cup {NoGuard} : Forward(g) /\ UNCHANGED matchVars
  \/ \E a \in AttemptIds, result \in GuardResults \cup {NoGuard} :
       GuardResume(a, result) /\ UNCHANGED matchVars
  \/ \E a \in AttemptIds : ViewResume(a) /\ UNCHANGED matchVars
  \/ \E a \in AttemptIds : NotifyResume(a) /\ UNCHANGED matchVars

Spec == Init /\ [][Next]_vars

\* The event loop runs the continuation of an awaited promise once the
\* promise has settled: a guard that is `async () => true` has settled, and
\* so have the promises of #validateView and #renderRouteView.
Fairness ==
  \A a \in AttemptIds :
    /\ WF_vars(GuardResume(a, "true") /\ attempts[a].guard = "resolvesTrue"
                  /\ UNCHANGED matchVars)
    /\ WF_vars(ViewResume(a) /\ UNCHANGED matchVars)
    /\ WF_vars(NotifyResume(a) /\ UNCHANGED matchVars)

\* Navigations to the guarded route and to the lazy route, run to their end.
NextFair ==
  \/ \E devMode \in DevModes, g \in GuardCalls \cup {NoGuard} :
       Construct(devMode, TRUE, g) /\ UNCHANGED matchVars
  \/ \E path \in {SecretURL, LazyURL}, g \in GuardCalls \cup {NoGuard} :
       Navigate(path, g) /\ UNCHANGED matchVars
  \/ \E a \in AttemptIds, result \in GuardResults \cup {NoGuard} :
       GuardResume(a, result) /\ UNCHANGED matchVars
  \/ \E a \in AttemptIds : ViewResume(a) /\ UNCHANGED matchVars
  \/ \E a \in AttemptIds : NotifyResume(a) /\ UNCHANGED matchVars

SpecFair == Init /\ [][NextFair]_vars /\ Fairness

\* The session lifecycle: constructions with a mount selector that resolves
\* or not, while a controller is live or not, and the reset hook.
NextLifecycle ==
  \/ \E devMode \in DevModes, rootFound \in BOOLEAN,
        g \in GuardCalls \cup {NoGuard} :
       Construct(devMode, rootFound, g) /\ UNCHANGED matchVars
  \/ ResetForTests /\ UNCHANGED matchVars
  \/ \E g \in GuardCalls \cup {NoGuard} :
       Navigate(LazyURL, g) /\ UNCHANGED matchVars
  \/ \E g \in GuardCalls \cup {NoGuard} : Back(g) /\ UNCHANGED matchVars
  \/ \E a \in AttemptIds, result \in GuardResults \cup {NoGuard} :
       GuardResume(a, result) /\ UNCHANGED matchVars
  \/ \E a \in AttemptIds : ViewResume(a) /\ UNCHANGED matchVars
  \/ \E a \in AttemptIds : NotifyResume(a) /\ UNCHANGED matchVars

SpecLifecycle == Init /\ [][NextLifecycle]_vars

\* The subscribers: callbacks subscribed and unsubscribed around navigations
\* to the guarded route.
NextSubscribers ==
  \/ \E devMode \in DevModes, g \in GuardCalls \cup {NoGuard} :
       Construct(devMode, TRUE, g) /\ UNCHANGED matchVars
  \/ \E cb \in Callbacks : OnRouteChange(cb) /\ UNCHANGED matchVars
  \/ \E cb \in Callbacks : Unsubscribe(cb) /\ UNCHANGED matchVars
  \/ \E g \in GuardCalls \cup {NoGuard} :
       Navigate(SecretURL, g) /\ UNCHANGED matchVars
  \/ \E a \in AttemptIds, result \in GuardResults \cup {NoGuard} :
       GuardResume(a, result) /\ UNCHANGED matchVars
  \/ \E a \in AttemptIds : ViewResume(a) /\ UNCHANGED matchVars
  \/ \E a \in AttemptIds : NotifyResume(a) /\ UNCHANGED matchVars

SpecSubscribers == Init /\ [][NextSubscribers]_vars

\* The scroll memory: the user scrolls the window between navigations.
NextScroll ==
  \/ Next
  \/ \E y \in 0..MaxScroll : UserScroll(y) /\ UNCHANGED matchVars

SpecScroll == Init /\ [][NextScroll]_vars

\* The navigation state machine with a subscribed callback: the application
\* subscribes "f", possibly more than once.
NextObserved ==
  \/ Next
  \/ OnRouteChange("f") /\ UNCHANGED matchVars

SpecObserved == Init /\ [][NextObserved]_vars

\* The reconcile: the document is loaded at a location with a query string
\* and a fragment, which the user leaves and comes back to with the
\* browser's buttons.
DeepURL == MkURL(<<"/", "s">>, <<"?", "a", "=", "b">>, <<"#", "h">>)

InitReconcile == InitMatchVars /\ InitRouterVarsAt(<<DeepURL, LazyURL>>, 1)

NextReconcile ==
  \/ \E devMode \in DevModes, g \in GuardCalls \cup {NoGuard} :
       Construct(devMode, TRUE, g) /\ UNCHANGED matchVars
  \/ \E g \in GuardCalls \cup {NoGuard} :
       Navigate(DeepURL, g) /\ UNCHANGED matchVars
  \/ \E g \in GuardCalls \cup {NoGuard} : Back(g) /\ UNCHANGED matchVars
  \/ \E g \in GuardCalls \cup {NoGuard} : Forward(g) /\ UNCHANGED matchVars
  \/ \E a \in AttemptIds, result \in GuardResults \cup {NoGuard} :
       GuardResume(a, result) /\ UNCHANGED matchVars
  \/ \E a \in AttemptIds : ViewResume(a) /\ UNCHANGED matchVars
  \/ \E a \in AttemptIds : NotifyResume(a) /\ UNCHANGED matchVars

SpecReconcile == InitReconcile /\ [][NextReconcile]_vars

\* The context builder: navigations to "/" with query strings and fragments
\* drawn from bounded sets.
QueryAlphabet == {"a", "b", "=", "&"}

QueryStrings == UNION {[1..n -> QueryAlphabet] : n \in 1..MaxQueryLen}

\* the search and the hash of a URL object: "" or "?..." and "" or "#..."
Searches == {<<>>} \cup {<<"?">> \o q : q \in QueryStrings}
Hashes == {<<>>, <<"#", "h">>}

QueryTargets == {MkURL(<<"/">>, search, hash) : search \in Searches, hash \in Hashes}

NextContext ==
  \/ \E devMode \in DevModes, g \in GuardCalls \cup {NoGuard} :
       Construct(devMode, TRUE, g) /\ UNCHANGED matchVars
  \/ /\ CanBegin
     /\ \E path \in QueryTargets :
          Navigate(path, NoGuard) /\ UNCHANGED matchVars

SpecContext == Init /\ [][NextContext]_vars

---------------------------------------------------------------------------
\* The matcher / normalizer harness: a caller applying loadRoutes and
\* matchRoute to route lists and pathnames drawn from bounded sets.

PathAlphabet == {"/", "a", "A", "*"}

\* the pathnames: strings over PathAlphabet that start with a slash
MatchPaths ==
  {p \in UNION {[1..n -> PathAlphabet] : n \in 1..MaxPathLen} : p[1] = "/"}

\* the route patterns the lists are drawn from
Patterns ==
  { <<"/">>, <<"/", "a">>, <<"/", "A">>, <<"/", ":", "i">>,
    <<"/", "a", "/", ":", "i">>, <<"/", ":", "i", "/", ":", "i">>,
    <<"/", ":", "i", "/", ":", "j">>, StarPath }

Digits == <<"1", "2", "3", "4", "5", "6", "7", "8", "9">>

\* the i-th declared route of a list: its view tells the declarations apart
DeclaredRoute(p, i) == MkRoute(p, Markup(<<Digits[i]>>), FALSE, FALSE, "")

MatchRouteLists ==
  { [i \in 1..n |-> DeclaredRoute(ps[i], i)] :
      n \in 0..MaxRoutes, ps \in [1..MaxRoutes -> Patterns] }

InitMatch ==
  /\ InitRouterVars
  /\ mOrig \in MatchRouteLists
  /\ mRoutes = mOrig
  /\ mLoads = 0
  /\ mPath \in MatchPaths
  /\ mArgRoutes = <<>>
  /\ mResult = NoResult

\* routes = loadRoutes(routes)
DoLoadRoutes ==
  /\ mLoads < MaxLoads
  /\ mRoutes' = loadRoutes(mRoutes)
  /\ mLoads' = mLoads + 1
  /\ UNCHANGED <<mOrig, mPath, mArgRoutes, mResult>>

\* res = matchRoute(pathname, routes)
DoMatchRoute ==
  /\ mResult' = matchRoute(mPath, mRoutes)
  /\ mArgRoutes' = mRoutes
  /\ UNCHANGED <<mOrig, mRoutes, mLoads, mPath>>

NextMatch == (DoLoadRoutes \/ DoMatchRoute) /\ UNCHANGED routerVars

SpecMatch == InitMatch /\ [][NextMatch]_vars

---------------------------------------------------------------------------
\* Properties of the navigation state machine

\* what an attempt may change once it passes its guard
CommittedState ==
  <<hist, hidx, currentRoute, currentRouteContext, rootChildren,
    scrollPositions>>

\* a call of navigate / redirect starts attempt a in this step
Called(a) ==
  /\ attempts[a].pc = "idle"
  /\ attempts'[a].pc # "idle"
  /\ attempts'[a].entry \in {"navigate", "redirect"}

\* attempt a passes its guard in this step
Passes(a) == attempts[a].pc = "guard" /\ attempts'[a].pc = "view"

\* C1: a navigate or redirect whose guard returns false ends with nothing
\* changed: neither the call nor the step that receives the guard's false
\* changes the history log, the location, the current match result, the
\* current context, the mount content or the scroll memory, no notification
\* round is run, and the attempt ends blocked.
C1_GuardFalseChangesNothing ==
  [][\A a \in AttemptIds :
       /\ Called(a) => UNCHANGED <<CommittedState, lastRound>>
       /\ (attempts[a].entry \in {"navigate", "redirect"}
             /\ GuardResume(a, "false"))
            => /\ UNCHANGED <<CommittedState, lastRound>>
               /\ attempts'[a].pc = "done"
               /\ attempts'[a].outcome = "blocked"]_vars

\* a navigate and a redirect were both blocked by their guards while a
\* callback was subscribed and a route was current
C1_Witness ==
  \E a, b \in AttemptIds :
    /\ attempts[a].entry = "navigate" /\ attempts[a].outcome = "blocked"
    /\ attempts[b].entry = "redirect" /\ attempts[b].outcome = "blocked"
    /\ routeChangeCallbacks # <<>>
    /\ currentRoute # UndefinedValue

\* C2: a guard that returns undefined or null aborts the attempt exactly as
\* a guard returning false does: no history mutation, no change of the
\* current match result or context, no notification round.
C2_NullishGuardAborts ==
  [][\A a \in AttemptIds : \A result \in {"undefined", "null"} :
       GuardResume(a, result)
         => /\ UNCHANGED <<CommittedState, lastRound>>
            /\ attempts'[a].outcome = "blocked"]_vars

\* a guard threw during the call that starts attempt a
GuardThrew(a) == attempts[a].pc = "idle" /\ attempts'[a].pc = "done"

\* the guard's promise of attempt a is rejected in this step
GuardRejected(a) ==
  \E result \in {"rejectError", "rejectOther"} : GuardResume(a, result)

\* C3: an attempt (navigate, redirect or back/forward reconcile) whose guard
\* throws or rejects is aborted with an error, and the step leaves the
\* history log, the current match result, the current context, the mount
\* content and the scroll memory as they were, and runs no notification round.
C3_GuardFailureAbortsWithError ==
  [][\A a \in AttemptIds :
       (GuardThrew(a) \/ GuardRejected(a))
         => /\ UNCHANGED <<hist, currentRoute, currentRouteContext,
                           rootChildren, scrollPositions, lastRound>>
            /\ attempts'[a].pc = "done"
            /\ attempts'[a].error # ""]_vars

\* navigate(path) waits for a guard that is `async () => true`
Approved(a) ==
  /\ attempts[a].pc = "guard"
  /\ attempts[a].entry = "navigate"
  /\ attempts[a].guard = "resolvesTrue"

\* the location is the path of attempt a and the current match result and
\* context are the ones attempt a built
Committed(a) ==
  /\ attempts[a].pc = "view"
  /\ Location = attempts[a].path
  /\ currentRoute = attempts[a].matchedRoute
  /\ currentRouteContext = attempts[a].newRouteContext

\* the mount point holds the view of the route attempt a matched
Rendered(a) ==
  /\ attempts[a].pc = "notify"
  /\ rootChildren.view = attempts[a].matchedRoute.route.view

Completed(a) == attempts[a].pc = "done" /\ attempts[a].outcome = "rendered"

\* attempt a, a navigate with an approving asynchronous guard, has passed
\* its guard and waits for its view
Entering(a) ==
  /\ attempts[a].pc = "view"
  /\ attempts[a].entry = "navigate"
  /\ attempts[a].guard = "resolvesTrue"

\* C4: a navigate whose asynchronous guard resolves to true eventually
\* completes. The step that delivers the guard's result makes the location
\* its path and the current match result and context its new values; the
\* step that delivers its view renders that view in the mount point; the
\* attempt eventually ends rendered; and no step other than the settling of
\* the guard's promise ends or changes an attempt that waits for its guard.
C4_ApprovedNavigationCompletes ==
  /\ \A a \in AttemptIds : Approved(a) ~> Completed(a)
  /\ [][\A a \in AttemptIds :
          /\ (attempts[a].pc = "guard" /\ attempts'[a] # attempts[a])
               => \E result \in GuardSettles(attempts[a].guard) :
                    GuardResume(a, result)
          /\ (Approved(a) /\ attempts'[a] # attempts[a]) => Committed(a)'
          /\ (Entering(a) /\ attempts'[a] # attempts[a]) => Rendered(a)']_vars

\* a navigate with an approving asynchronous guard has rendered its view
\* at the location it pushed
C4_Witness ==
  \E a \in AttemptIds :
    /\ attempts[a].entry = "navigate"
    /\ attempts[a].guard = "resolvesTrue"
    /\ Rendered(a)
    /\ Location = attempts[a].path

\* C5: a navigate that passes its guard appends exactly one entry after
\* the current one; a redirect that passes its guard replaces the current
\* entry, and the log keeps its length; a reconcile and the initial render
\* that pass their guard, and every other step, leave the log as it is.
C5_HistoryMutationPerEntryPoint ==
  [][/\ \A a \in AttemptIds :
          Passes(a) =>
            IF attempts[a].entry = "navigate"
              THEN /\ hidx' = hidx + 1
                   /\ Len(hist') = hidx + 1
                   /\ hist'[hidx + 1] = attempts[a].path
                   /\ \A i \in 1..hidx : hist'[i] = hist[i]
            ELSE IF attempts[a].entry = "redirect"
              THEN /\ hidx' = hidx
                   /\ Len(hist') = Len(hist)
                   /\ hist'[hidx] = attempts[a].path
                   /\ \A i \in (1..Len(hist)) \ {hidx} : hist'[i] = hist[i]
            ELSE /\ hist' = hist
                 /\ hidx' = hidx
     /\ (\A a \in AttemptIds : ~Passes(a)) => hist' = hist]_vars

\* a navigate and a redirect have both committed and rendered
C5_Witness ==
  \E a, b \in AttemptIds :
    /\ attempts[a].entry = "navigate" /\ attempts[a].outcome = "rendered"
    /\ attempts[b].entry = "redirect" /\ attempts[b].outcome = "rendered"

\* new Router(...) is called in this step
Constructing == constructed' # constructed

AlreadyInitialized == "Router already initialized."

\* C6: at most one controller is live: a construction while the instance
\* counter is positive throws "Router already initialized." and installs no
\* listeners; __resetForTests zeroes the counter and detaches the listeners;
\* a construction while the counter is zero does not throw that error, and
\* when it succeeds its listeners are the only ones installed.
C6_SingleLiveController ==
  [][/\ Cardinality(windowListeners') <= 1
     /\ Cardinality(documentListeners') <= 1
     /\ routerInstances' <= 1
     /\ (Constructing /\ routerInstances > 0)
          => /\ thrown' = AlreadyInitialized
             /\ UNCHANGED <<routerInstances, router, windowListeners,
                            documentListeners, attempts>>
     /\ ResetForTests
          => /\ routerInstances' = 0
             /\ windowListeners' = {}
             /\ documentListeners' = {}
     /\ (Constructing /\ routerInstances = 0)
          => /\ thrown' # AlreadyInitialized
             /\ thrown' = ""
                  => /\ router' = constructed'
                     /\ windowListeners' = {router'}
                     /\ documentListeners' = {router'}]_vars

\* a second construction has thrown while the first controller is live
C6_Witness ==
  /\ thrown = AlreadyInitialized
  /\ constructed = 2
  /\ router = 1
  /\ windowListeners = {1}
  /\ documentListeners = {1}

\* the places of callback cb in a subscriber list
Places(list, cb) == {i \in DOMAIN list : list[i] = cb}

\* C10: the notification round of an attempt that committed and rendered
\* invokes every callback subscribed at that moment exactly once, in the
\* order of subscription, after the current match result and context were
\* set.
C10_EachSubscriberOnceInOrder ==
  [][\A a \in AttemptIds :
       NotifyResume(a)
         => LET invoked == [i \in DOMAIN lastRound'.calls |->
                              lastRound'.calls[i].callback]
            IN  /\ \A cb \in Callbacks :
                     Places(routeChangeCallbacks, cb) # {}
                       => Cardinality(Places(invoked, cb)) = 1
                /\ \A i, j \in DOMAIN invoked :
                     i < j =>
                       \E m, n \in DOMAIN routeChangeCallbacks :
                         /\ m < n
                         /\ routeChangeCallbacks[m] = invoked[i]
                         /\ routeChangeCallbacks[n] = invoked[j]
                /\ lastCommit # 0
                /\ currentRoute # UndefinedValue
                /\ currentRouteContext # UndefinedValue]_vars

\* C11: when a callback throws during the notification round of attempt a,
\* every callback subscribed after it is still invoked in that round, in
\* order; the attempt goes on to its scroll step and ends without an error;
\* and the current match result and context stay as they were.
C11_ThrowingSubscriberIsIsolated ==
  [][\A a \in AttemptIds :
       (NotifyResume(a)
          /\ \E i \in DOMAIN routeChangeCallbacks :
               CallbackThrows(routeChangeCallbacks[i]))
         => /\ Len(lastRound'.calls) = Len(routeChangeCallbacks)
            /\ \A i, j \in DOMAIN routeChangeCallbacks :
                 (CallbackThrows(routeChangeCallbacks[i]) /\ i < j)
                   => /\ lastRound'.calls[i].caught
                      /\ lastRound'.calls[j].callback = routeChangeCallbacks[j]
            /\ lastScroll'.by = a
            /\ attempts'[a].outcome = "rendered"
            /\ attempts'[a].error = ""
            /\ UNCHANGED <<currentRoute, currentRouteContext>>]_vars

\* a round in which a callback threw and a callback subscribed after it
\* was invoked, followed by the scroll step of the same attempt
C11_Witness ==
  /\ Len(lastRound.calls) = 2
  /\ lastRound.calls[1].caught
  /\ lastRound.calls[2].callback = "f"
  /\ lastScroll.by = lastRound.by
  /\ attempts[lastRound.by].outcome = "rendered"

\* the callbacks of a subscriber list other than cb, in their order
Others(list, cb) == SelectSeq(list, LAMBDA c : c # cb)

\* cb is subscribed in list
Subscribed(list, cb) == \E i \in DOMAIN list : list[i] = cb

\* C12: a call of the unsubscribe closure of cb leaves cb unsubscribed and
\* all other subscribers registered in their order, and changes nothing
\* else; a further call of the same closure would leave that list as it is;
\* and the notification round of a navigation does not invoke a callback
\* that is not subscribed when the round starts, and leaves unsubscribed
\* every callback whose closure was called during the round.
C12_UnsubscribeRemovesAndIsIdempotent ==
  [][\A cb \in Callbacks :
       /\ Unsubscribe(cb)
            => /\ ~Subscribed(routeChangeCallbacks', cb)
               /\ routeChangeCallbacks' = Others(routeChangeCallbacks, cb)
               /\ Without(routeChangeCallbacks', cb) = routeChangeCallbacks'
               /\ UNCHANGED <<thrown, overlays, attempts>>
       /\ \A a \in AttemptIds :
            NotifyResume(a)
              => /\ ~Subscribed(routeChangeCallbacks, cb)
                      => \A i \in DOMAIN lastRound'.calls :
                           lastRound'.calls[i].callback # cb
                 /\ (\E i \in DOMAIN routeChangeCallbacks :
                       cb \in CallbackUnsubscribes(routeChangeCallbacks[i]))
                      => ~Subscribed(routeChangeCallbacks', cb)]_vars

\* "f" was invoked in the last round and its unsubscribe closure was then
\* called by "u": "f" is no longer subscribed, "u" still is, and a further
\* navigation is about to notify
C12_Witness ==
  /\ Len(lastRound.calls) = 2
  /\ lastRound.calls[1].callback = "f"
  /\ lastRound.calls[2].callback = "u"
  /\ routeChangeCallbacks = <<"u">>
  /\ \E a \in AttemptIds : attempts[a].pc = "notify"

\* attempt a is a back / forward reconcile to a flagged route, at a location
\* without hash, it is the only attempt in flight and the last to commit
Returning(a) ==
  /\ attempts[a].entry = "popstate"
  /\ InFlight = {a}
  /\ lastCommit = a
  /\ attempts[a].matchedRoute.route.preserveScrollPosition
  /\ attempts[a].newRouteContext.hash = <<>>

\* C13: when a back-navigation returns to a flagged route at a location
\* that was left for another route at window offset y, the scroll step of
\* the returning attempt scrolls the window to (0, y), whatever the window's
\* offset was in between.
C13_BackRestoresOffsetAtLeaving ==
  [][\A a \in AttemptIds :
       (NotifyResume(a) /\ Returning(a)
          /\ ScrollKey(attempts[a].newRouteContext) \in DOMAIN leftAt)
         => /\ lastScroll'.by = a
            /\ lastScroll'.kind = "scrollTo"
            /\ lastScroll'.y = leftAt[ScrollKey(attempts[a].newRouteContext)]
            /\ scrollY' = leftAt[ScrollKey(attempts[a].newRouteContext)]]_vars

\* the part of a pair before its first "=", and the part after it ("" when
\* the pair has no "=")
PairKey(pair) ==
  IF IndexOf(pair, "=") = 0 THEN pair
  ELSE SubSeq(pair, 1, IndexOf(pair, "=") - 1)

PairValue(pair) ==
  IF IndexOf(pair, "=") = 0 THEN <<>>
  ELSE SubSeq(pair, IndexOf(pair, "=") + 1, Len(pair))

\* the query mapping of a query string: pairs split on "&", each pair on its
\* first "=", the last occurrence of a key winning
QueryMapping(query) ==
  IF query = <<>> THEN EmptyMap
  ELSE LET pairs == Split(query, "&")
           last(k) == CHOOSE i \in DOMAIN pairs :
                        /\ PairKey(pairs[i]) = k
                        /\ \A j \in DOMAIN pairs :
                             PairKey(pairs[j]) = k => j <= i
       IN  [k \in {PairKey(pairs[i]) : i \in DOMAIN pairs} |->
              PairValue(pairs[last(k)])]

\* C14: the context an attempt builds for a URL has the query mapping of
\* the URL's query string (pairs split on "&", each pair on its first "="
\* only, a missing value giving "", the last duplicate key winning; no query
\* string giving the empty mapping) and the URL's fragment as hash ("" when
\* there is none).
C14_ContextQueryAndHash ==
  \A a \in AttemptIds :
    (attempts[a].pc = "guard" /\ attempts[a].path # UndefinedValue)
      => LET url == attempts[a].path
             ctx == attempts[a].newRouteContext
         IN  /\ ctx.query =
                  QueryMapping(IF url.search = <<>> THEN <<>>
                               ELSE Tail(url.search))
             /\ ctx.hash = (IF url.hash = <<>> THEN <<>> ELSE Tail(url.hash))

\* a view declaration of no recognized kind
UnrecognizedKind(view) ==
  /\ ~ViewMissing(view)
  /\ ~validateView(view).ok
  /\ validateView(view).error = Unrecognized

\* the match result of the attempt a that takes this step
Matched(a) ==
  IF attempts[a].pc = "idle" THEN attempts'[a].matchedRoute
  ELSE attempts[a].matchedRoute

C16_GettersNeverRaise ==
  router # 0
    => /\ ~RouterCurrentRoute.raised
       /\ ~RouterParams.raised
       /\ ~RouterUrl.raised

\* the scroll memory after a commit that leaves the current route: the
\* offset of the window under the key of the location being left when the
\* route being left is flagged, and no write otherwise
MemoryAfterLeaving ==
  IF currentRoute.route.preserveScrollPosition
    THEN MapSet(scrollPositions, ScrollKey(currentRouteContext), scrollY)
    ELSE scrollPositions

\* C17: at the commit point of an attempt that leaves a committed route, a
\* scroll offset is written to the scroll memory if and only if the route
\* being left is flagged preserveScrollPosition, and it is written under the
\* pathname+search+hash of the location being left; the flag and the key of
\* the route being entered play no part.
C17_ScrollSavedForRouteBeingLeft ==
  [][\A a \in AttemptIds :
       (Passes(a) /\ currentRoute # UndefinedValue)
         => scrollPositions' = MemoryAfterLeaving]_vars

\* the scroll action the priority rule chooses for attempt a: the element
\* named by the hash of the attempt's context, else the offset the scroll
\* memory held for the attempt's location when the attempt started, else
\* the origin
ScrollByPriority(a) ==
  LET ctx == attempts[a].newRouteContext
      memo == attempts[a].memo
  IN  IF ctx.hash # <<>>
        THEN [by |-> a, kind |-> "element", id |-> ctx.hash, y |-> 0]
      ELSE IF memo.has
        THEN [by |-> a, kind |-> "scrollTo", id |-> <<>>, y |-> memo.y]
      ELSE [by |-> a, kind |-> "scrollTo", id |-> <<>>, y |-> 0]

\* C18: the scroll action that ends a committed navigation (no other
\* attempt having committed since) is chosen by priority: the element with
\* the id of the new context's hash when the hash is not empty; else
\* window.scrollTo(0, y) for the offset y the scroll memory held for the new
\* location's key before the attempt started; else window.scrollTo(0, 0).
\* The first visit to a location without hash scrolls to (0, 0).
C18_ScrollActionByPriority ==
  [][\A a \in AttemptIds :
       (NotifyResume(a) /\ lastCommit = a /\ attempts'[a].outcome = "rendered")
         => lastScroll' = ScrollByPriority(a)]_vars

\* C19: an attempt whose view resolution fails (unrecognized view, missing
\* view or rejected lazy view) changes neither the current match result nor
\* the current context at any of its steps, and no notification round is run
\* for it: the controller stays on the previously committed navigation.
C19_ViewFailureKeepsCurrentRoute ==
  [][\A a \in AttemptIds :
       (/\ attempts'[a] # attempts[a]
        /\ Matched(a) # UndefinedValue
        /\ ~renderRouteView(Matched(a).route).ok)
         => /\ currentRoute' = currentRoute
            /\ currentRouteContext' = currentRouteContext
            /\ lastRound' = lastRound]_vars

\* attempt a is a navigate or a redirect to a route whose view resolution
\* fails
FailingEntry(a) ==
  /\ attempts[a].pc \in {"guard", "view"}
  /\ attempts[a].entry \in {"navigate", "redirect"}
  /\ ~renderRouteView(attempts[a].matchedRoute.route).ok

\* C20: a navigate or redirect whose view resolution fails after its guard
\* passed has applied its history mutation at the commit (one entry pushed
\* after the current one, or the current entry replaced), and the step at
\* which the view fails leaves the history log and the location as they
\* are: the mutation is not rolled back.
C20_HistoryMutationKeptOnViewFailure ==
  [][\A a \in AttemptIds :
       FailingEntry(a)
         => /\ Passes(a)
                 => IF attempts[a].entry = "navigate"
                      THEN /\ hist' = Append(SubSeq(hist, 1, hidx),
                                             attempts[a].path)
                           /\ hidx' = hidx + 1
                      ELSE /\ hist' = [hist EXCEPT ![hidx] = attempts[a].path]
                           /\ hidx' = hidx
            /\ (attempts[a].pc = "view" /\ attempts'[a] # attempts[a])
                 => /\ attempts'[a].outcome = "viewError"
                    /\ hist' = hist
                    /\ hidx' = hidx]_vars

\* a navigate has failed at its view and the location is the one it pushed
C20_Witness ==
  \E a \in AttemptIds :
    /\ attempts[a].entry = "navigate"
    /\ attempts[a].outcome = "viewError"
    /\ lastCommit = a
    /\ Location = BadURL
    /\ Len(hist) > 1 /\ hist[hidx - 1] = RootURL

\* attempt a suspends in this step: at its guard, or at the resolution of a
\* lazy view
Suspends(a) ==
  /\ attempts'[a] # attempts[a]
  /\ \/ attempts'[a].pc = "guard"
     \/ /\ attempts'[a].pc = "view"
        /\ attempts'[a].matchedRoute.route.view.type = "function"

\* C21: an attempt that is suspended at its guard or at the resolution of
\* its lazy view has not changed the current match result or the current
\* context: the step that brings it to the suspension leaves both as they
\* were, so that an overlapping attempt or a getter sees the values
\* committed before.
C21_SuspendedAttemptHasNotCommitted ==
  [][\A a \in AttemptIds :
       Suspends(a)
         => /\ currentRoute' = currentRoute
            /\ currentRouteContext' = currentRouteContext]_vars

\* C22: when attempts overlap and pass their guards, the current match
\* result and the current context are those of the attempt that reached its
\* commit point last, whatever the order in which the attempts were started:
\* the step at which an attempt passes its guard makes both the values that
\* attempt built, and no other step changes them.
C22_LastCommitWins ==
  [][/\ \A a \in AttemptIds :
          Passes(a) => /\ currentRoute' = attempts[a].matchedRoute
                       /\ currentRouteContext' = attempts[a].newRouteContext
     /\ (\A a \in AttemptIds : ~Passes(a))
          => /\ currentRoute' = currentRoute
             /\ currentRouteContext' = currentRouteContext]_vars

\* the initial render and a navigate started after it overlapped, the
\* navigate committed first, both have finished, and the current match
\* result is the one of the initial render
C22_Witness ==
  /\ attempts[1].entry = "initial" /\ attempts[1].outcome = "rendered"
  /\ attempts[2].entry = "navigate" /\ attempts[2].outcome = "rendered"
  /\ attempts[3].pc = "idle"
  /\ lastCommit = 1
  /\ Location = LazyURL
  /\ currentRoute.route = HomeRoute

\* C23: the context an attempt passes to the subscribers, and the hash its
\* scroll resolution uses, are those of the context that attempt built,
\* also when another attempt has committed while it was suspended in view
\* resolution.
C23_RoundUsesOwnContext ==
  [][\A a \in AttemptIds :
       (NotifyResume(a) /\ attempts'[a].outcome = "rendered")
         => /\ lastRound'.by = a
            /\ \A i \in DOMAIN lastRound'.calls :
                 lastRound'.calls[i].ctx = attempts[a].newRouteContext
            /\ lastScroll'.by = a
            /\ IF attempts[a].newRouteContext.hash # <<>>
                 THEN /\ lastScroll'.kind = "element"
                      /\ lastScroll'.id = attempts[a].newRouteContext.hash
                 ELSE lastScroll'.kind = "scrollTo"]_vars

\* a reconcile (back / forward) or the initial render starts attempt a in
\* this step
Reconciles(a) ==
  /\ attempts[a].pc = "idle"
  /\ attempts'[a].pc = "guard"
  /\ attempts'[a].entry \in {"popstate", "initial"}

\* C24: the context a back / forward reconcile or the initial render builds
\* has the query, the hash and the scroll memory key of the full location it
\* renders, as a navigate to that URL would build them.
C24_ReconcileUsesFullLocation ==
  [][\A a \in AttemptIds :
       Reconciles(a)
         => LET ctx == attempts'[a].newRouteContext
                full == createRouteContext(attempts'[a].matchedRoute,
                                           hist'[hidx'])
            IN  /\ ctx.query = full.query
                /\ ctx.hash = full.hash
                /\ ScrollKey(ctx) = ScrollKey(full)]_vars

\* the callbacks whose unsubscribe closure is called by a callback of list
UnsubscribedBy(list) ==
  UNION {CallbackUnsubscribes(list[i]) : i \in DOMAIN list}

\* C25: in a notification round during which a callback calls an
\* unsubscribe closure, every callback that was subscribed when the round
\* started and is not unsubscribed in it is invoked exactly once, the
\* invocations follow the subscription order, and no callback is invoked
\* twice.
C25_UnsubscribeInsideRoundIsSafe ==
  [][\A a \in AttemptIds :
       (NotifyResume(a) /\ UnsubscribedBy(routeChangeCallbacks) # {})
         => LET invoked == [i \in DOMAIN lastRound'.calls |->
                              lastRound'.calls[i].callback]
            IN  /\ \A cb \in Callbacks \ UnsubscribedBy(routeChangeCallbacks) :
                     Subscribed(routeChangeCallbacks, cb)
                       => Cardinality(Places(invoked, cb)) = 1
                /\ \A i, j \in DOMAIN invoked :
                     i < j =>
                       \E m, n \in DOMAIN routeChangeCallbacks :
                         /\ m < n
                         /\ routeChangeCallbacks[m] = invoked[i]
                         /\ routeChangeCallbacks[n] = invoked[j]
                /\ \A cb \in Callbacks :
                     Cardinality(Places(invoked, cb)) <= 1]_vars

\* no attempt is in flight and every attempt made so far has rendered
Quiescent ==
  /\ InFlight = {}
  /\ \A a \in AttemptIds :
       attempts[a].pc = "done" => attempts[a].outcome = "rendered"

\* what the mount point holds once the view of route has rendered
ViewOf(route) ==
  [viewType |-> renderRouteView(route).viewType,
   view |-> renderRouteView(route).view]

\* C27: whenever no attempt is in flight and every finished attempt ended
\* without error, the mount point holds the view of the current match
\* result's route and the top history entry is the URL of the current
\* context, also after overlapping navigations to a lazy and a non-lazy
\* route in any order of resolution.
C27_QuiescentStateIsConsistent ==
  (Quiescent /\ currentRoute # UndefinedValue)
    => /\ rootChildren = ViewOf(currentRoute.route)
       /\ Location = currentRouteContext.url

ElementNotFound == "Element not found."

\* C28: the instance counter is positive exactly when a controller with
\* installed listeners exists; a construction that fails because the mount
\* selector resolves to no element leaves the counter at its value before
\* the call (so that a later construction with a valid selector succeeds
\* without a reset).
C28_CounterCountsLiveControllers ==
  [][/\ routerInstances' > 0
          <=> (windowListeners' # {} /\ documentListeners' # {})
     /\ (Constructing /\ thrown' = ElementNotFound)
          => routerInstances' = routerInstances]_vars

---------------------------------------------------------------------------
\* Properties of the matcher and the normalizer

\* a parameter segment of a pattern
IsParamSegment(seg) == Len(seg) > 0 /\ seg[1] = ":"

\* the pattern fits the path: as many segments, each one a parameter
\* segment or the same literal
PatternFits(pattern, path) ==
  LET r == Segments(pattern)
      q == Segments(path)
  IN  /\ Len(r) = Len(q)
      /\ \A k \in 1..Len(r) : IsParamSegment(r[k]) \/ r[k] = q[k]

\* the params a fitting pattern yields: each parameter name bound to the path
\* segment at the (last) position that carries the name
ParamsOf(pattern, path) ==
  LET r == Segments(pattern)
      q == Segments(path)
      at(n) == {k \in 1..Len(r) : IsParamSegment(r[k]) /\ Tail(r[k]) = n}
      last(n) == CHOOSE k \in at(n) : \A j \in at(n) : j <= k
  IN  [n \in {Tail(r[k]) : k \in {j \in 1..Len(r) : IsParamSegment(r[j])}}
         |-> q[last(n)]]

HasStarRoute(routes) == \E i \in 1..Len(routes) : routes[i].path = StarPath

MatchCalledOnNormalized == mResult # NoResult /\ HasStarRoute(mArgRoutes)

\* C7: on a catch-all-normalized list, matchRoute selects the route of lowest
\* declaration index whose pattern fits the path (same number of segments,
\* each a parameter or the same literal, case-sensitively), and the params
\* bind each parameter name of that pattern to the path segment at its position.
C7_FirstFittingRouteSelected ==
  MatchCalledOnNormalized =>
    \A i \in 1..Len(mArgRoutes) :
      ( /\ PatternFits(mArgRoutes[i].path, mPath)
        /\ \A j \in 1..(i - 1) : ~PatternFits(mArgRoutes[j].path, mPath) )
      => /\ mResult.route = mArgRoutes[i]
         /\ mResult.params = ParamsOf(mArgRoutes[i].path, mPath)

\* the second declared route was selected although the first has as many
\* segments, and a parameter was bound
C7_Witness ==
  /\ MatchCalledOnNormalized
  /\ Len(mArgRoutes) >= 2
  /\ mResult.route = mArgRoutes[2]
  /\ mArgRoutes[1] # mArgRoutes[2]
  /\ Len(Segments(mArgRoutes[1].path)) = Len(Segments(mPath))
  /\ DOMAIN mResult.params # {}

\* C8: on a catch-all-normalized list matchRoute returns a result whose route
\* is a route of the list; when no non-fallback route fits the path, it is
\* the (first) `*` route with an empty params mapping.
C8_FallbackWhenNothingFits ==
  MatchCalledOnNormalized =>
    /\ mResult.route # UndefinedRoute
    /\ \E i \in 1..Len(mArgRoutes) : mResult.route = mArgRoutes[i]
    /\ (\A i \in 1..Len(mArgRoutes) :
           mArgRoutes[i].path # StarPath
             => ~PatternFits(mArgRoutes[i].path, mPath))
       => /\ mResult.route.path = StarPath
          /\ \E i \in 1..Len(mArgRoutes) :
               /\ mResult.route = mArgRoutes[i]
               /\ \A j \in 1..(i - 1) : mArgRoutes[j].path # StarPath
          /\ mResult.params = EmptyMap

\* the fallback was returned for a list that declares a route with as many
\* segments as the path
C8_Witness ==
  /\ MatchCalledOnNormalized
  /\ mResult.route.path = StarPath
  /\ mResult.params = EmptyMap
  /\ mPath # <<"/", "*">>
  /\ \E i \in 1..Len(mArgRoutes) :
       /\ mArgRoutes[i].path # StarPath
       /\ Len(Segments(mArgRoutes[i].path)) = Len(Segments(mPath))

\* C9: loadRoutes returns a list that has a `*` route unchanged, and any
\* other list followed by exactly one `*` fallback route in last position;
\* a second application changes nothing, and the result always has a `*` route.
C9_LoadRoutesNormalizes ==
  mLoads >= 1 =>
    /\ HasStarRoute(mRoutes)
    /\ HasStarRoute(mOrig) => mRoutes = mOrig
    /\ ~HasStarRoute(mOrig) =>
         /\ Len(mRoutes) = Len(mOrig) + 1
         /\ SubSeq(mRoutes, 1, Len(mOrig)) = mOrig
         /\ mRoutes[Len(mRoutes)].path = StarPath
         /\ ~mRoutes[Len(mRoutes)].beforeEnter
         /\ Cardinality({i \in 1..Len(mRoutes) : mRoutes[i].path = StarPath}) = 1

\* loadRoutes was applied twice to a non-empty list that declares no `*` route
C9_Witness ==
  /\ mLoads = 2
  /\ Len(mOrig) >= 1
  /\ ~HasStarRoute(mOrig)
  /\ Len(mRoutes) = Len(mOrig) + 1

\* C26: for the root path "/" matchRoute selects only a route whose pattern
\* has no segment (the pattern "/", or the catch-all when nothing fits): it
\* selects the first route declared as "/" when there is one, never a
\* one-segment parameter pattern such as "/:id" declared before it, and it
\* binds no parameter to an empty segment value.
C26_RootPathHasNoSegment ==
  (mResult # NoResult /\ mPath = <<"/">>)
    => /\ \A k \in DOMAIN mResult.params : mResult.params[k] # <<>>
       /\ mResult.route # UndefinedRoute
            => mResult.route.path \in {<<"/">>, StarPath}
       /\ (\E i \in 1..Len(mArgRoutes) : mArgRoutes[i].path = <<"/">>)
            => mResult.route.path = <<"/">>

=============================================================================
